---------------------------- MODULE Spec2Model ----------------------------
(***************************************************************************)
(* A model of the gotimer call-region profiler (package timer, the version *)
(* with Reset, StartThroughput and the TIMER switch).                      *)
(*                                                                         *)
(* Pointers.  An *anchor is modelled by the (truncated) name under which   *)
(* it is stored in anchorsByName: within one session the map holds the     *)
(* only anchor of that name, and Reset drops every reference to the        *)
(* anchors and timings of the previous session.  A *timing is an index     *)
(* into the heap `timings` (0 is nil).  The two package-level objects      *)
(* totalAnchor and totalTiming are variables of their own.                 *)
(*                                                                         *)
(* Names are sequences of one-character strings, so that the truncation    *)
(* anchorName[:anchorNameMaxLength] is computed and not assumed.           *)
(***************************************************************************)
EXTENDS Integers, Sequences, FiniteSets, TLC

(***************************************************************************)
(* Program constants.                                                      *)
(***************************************************************************)
anchorNameMaxLength == 18

\* The source allocates 1000 slots; the model keeps the same code with a
\* table scaled down to 3 slots (slot 0 is never used, so 2 anchors fit).
maxHandledAnchors == 3

TOTAL_ANCHOR_NAME == <<"t", "o", "t", "a", "l">>

(***************************************************************************)
(* Bounds of the model.                                                    *)
(***************************************************************************)
\* timings allocated in one session (Start calls that open a region)
MaxTimings == 3

\* largest value the cycle counter reaches
MaxClock == 2

\* Stop calls without an open region of their name in one session
MaxUnmatched == 1


(***************************************************************************)
(* Inputs.                                                                 *)
(***************************************************************************)
Stem == [i \in 1..anchorNameMaxLength |-> "k"]

NameA == <<"a">>
NameB == <<"b">>
\* two names longer than anchorNameMaxLength that agree on their first
\* anchorNameMaxLength characters
LongX == Stem \o <<"x">>
LongY == Stem \o <<"y">>

Names == {NameA, NameB, LongX, LongY}

\* the calls of StartThroughput: <<anchorName, processedBytes>>
ThroughputCalls == {<<NameA, 1024>>}

\* results the calibration getCPUTimerFreq(50) may return
CalibratedFreqs == {3000000}

\* cycles the counter advances during the calibration: cpuElapsed, which is
\* positive whenever the frequency computed from it is
CalibrationCycles == {1}

\* advances of the cycle counter between two readings
Ticks == {0, 1}

\* values of the TIMER environment variable ("" stands for unset)
EnvValues == {"", "0"}

(***************************************************************************)
(* Nil and the references to the two package-level objects.                *)
(***************************************************************************)
NilAnchor == <<"nil">>
TotalAnchorRef == <<"&totalAnchor">>
NilTiming == 0
TotalTimingRef == -1

VARIABLES
    \* ---- package-level state of the program
    cpuFrequency,     \* var cpuFrequency int64
    index,            \* var index int
    anchors,          \* var anchors []*anchor   (slot -> anchor reference)
    anchorsByName,    \* var anchorsByName map[string]*anchor, with the anchors
    timings,          \* the heap of timing objects allocated by StartThroughput
    totalTiming,      \* var totalTiming *timing
    totalAnchor,      \* var totalAnchor *anchor
    currentAnchor,    \* var currentAnchor *anchor
    currentTiming,    \* var currentTiming *timing
    \* ---- environment
    timerEnv,         \* os.Getenv("TIMER")
    clock,            \* the last value read from the cycle counter
    \* ---- the last call and what came of it
    call,             \* the function called last
    result,           \* how it ended: "ok", "disabled" or the panic
    stdout,           \* the lines the last call printed
    \* ---- history of the caller (not program state)
    stack,            \* timings of the caller's open regions, innermost last
    begun,            \* truncated name -> enabled Start calls since Reset
    openCycles,       \* truncated name -> cycles with an invocation of it open
    busyCycles,       \* cycles with at least one region open
    recursed,         \* a name was begun while it was open
    misnested,        \* Stop calls without an open region of their name
    strayed,          \* anchors one of whose children was begun outside them
    shape,            \* form of the call sequence since Reset
    firstRead         \* cycle reading of the first Start since Reset

progVars == <<cpuFrequency, index, anchors, anchorsByName, timings, totalTiming,
              totalAnchor, currentAnchor, currentTiming>>
envVars == <<timerEnv, clock>>
histVars == <<stack, begun, openCycles, busyCycles, recursed, misnested,
              strayed, shape, firstRead>>
vars == <<progVars, envVars, call, result, stdout, histVars>>

(***************************************************************************)
(* Values.                                                                 *)
(***************************************************************************)
\* a float64 quotient float64(num) / float64(den), kept as the pair
Quotient(num, den) == [num |-> num, den |-> den]
ZeroFloat == Quotient(0, 1)

\* &timing{}
NewTiming == [start |-> 0, previous |-> NilTiming, anchor |-> NilAnchor]

\* &anchor{name: n, active: a}
NewAnchor(n, a) ==
    [hits |-> 0, depth |-> 0, tscount |-> 0, bytes |-> 0, elapsed |-> ZeroFloat,
     name |-> n, active |-> a, parent |-> NilAnchor, latest |-> NilTiming]

\* anchorName[:anchorNameMaxLength] when len(anchorName) > anchorNameMaxLength
Truncate(anchorName) ==
    IF Len(anchorName) > anchorNameMaxLength
    THEN SubSeq(anchorName, 1, anchorNameMaxLength)
    ELSE anchorName

\* the values a reading of the cycle counter may return: it never runs back
ReadCPUTimerAfter(last) == {r \in {last + t : t \in Ticks} : r <= MaxClock}

ReadCPUTimer == ReadCPUTimerAfter(clock)

\* getCPUTimerFreq: the frequencies it may return, each with the value of the
\* counter at its last reading (cpuEnd)
GetCPUTimerFreq ==
    {cal \in [freq : CalibratedFreqs,
              cpuEnd : {clock + c : c \in CalibrationCycles}] :
        cal.cpuEnd <= MaxClock}


Getenv == timerEnv

\* the switch compared with another value than "0"
DisabledOnFalse == Getenv = "false"

\* os.Getenv(TIMER_ENV_VAR) == "0"
Disabled == Getenv = "0"

\* the cycles since `start` added twice
ChargeTwice(tscount, now, start) == tscount + 2 * (now - start)

\* the reading added without the start taken off
ChargeWholeReading(tscount, now, start) == tscount + now

\* tscount + now - start: the cycles since `start` added to a count
Charge(tscount, now, start) == tscount + now - start

TruncatedNames == {Truncate(n) : n \in Names}

Known == DOMAIN anchorsByName

(***************************************************************************)
(* Initial state: the package-level declarations.                          *)
(***************************************************************************)
InitAnchors == [i \in 0..(maxHandledAnchors - 1) |-> NilAnchor]

InitProg ==
    /\ cpuFrequency = 0
    /\ index = 0
    /\ anchors = InitAnchors
    /\ anchorsByName = <<>>
    /\ timings = <<>>
    /\ totalTiming = NewTiming
    /\ totalAnchor = NewAnchor(TOTAL_ANCHOR_NAME, FALSE)
    /\ currentAnchor = NilAnchor
    /\ currentTiming = NilTiming

\* the session: the package-level state but the calibration
Session == <<index, anchors, anchorsByName, timings, totalTiming, totalAnchor,
             currentAnchor, currentTiming>>

InitHist ==
    /\ stack = <<>>
    /\ begun = [n \in TruncatedNames |-> 0]
    /\ openCycles = [n \in TruncatedNames |-> 0]
    /\ busyCycles = 0
    /\ recursed = FALSE
    /\ misnested = 0
    /\ strayed = {}
    /\ shape = [form |-> "fresh", name |-> NilAnchor]
    /\ firstRead = -1


Init ==
    /\ InitProg
    /\ timerEnv = ""
    /\ clock = 0
    /\ call = "none"
    /\ result = "none"
    /\ stdout = <<>>
    /\ InitHist

\* the package-level declarations, with a counter whose readings, converted
\* to int64 by readCPUTimer, are still below 0: the next cycle reads 0
InitBelowZero ==
    /\ InitProg
    /\ timerEnv = ""
    /\ clock = -1
    /\ call = "none"
    /\ result = "none"
    /\ stdout = <<>>
    /\ InitHist

(***************************************************************************)
(* Reset.                                                                  *)
(***************************************************************************)
\* a Reset that leaves the current anchor and timing in place
ResetKeepsCurrent ==
    /\ index' = 0
    /\ anchors' = [i \in 0..(maxHandledAnchors - 1) |-> NilAnchor]
    /\ anchorsByName' = <<>>
    /\ totalTiming' = NewTiming
    /\ totalAnchor' = NewAnchor(TOTAL_ANCHOR_NAME, FALSE)
    /\ timings' = <<>>
    /\ UNCHANGED <<currentAnchor, currentTiming, cpuFrequency, clock>>
    /\ result' = "ok"
    /\ stdout' = <<>>

Reset ==
    /\ index' = 0
    /\ anchors' = [i \in 0..(maxHandledAnchors - 1) |-> NilAnchor]
    /\ anchorsByName' = <<>>
    /\ totalTiming' = NewTiming
    /\ currentAnchor' = NilAnchor
    /\ currentTiming' = NilTiming
    /\ totalAnchor' = NewAnchor(TOTAL_ANCHOR_NAME, FALSE)
    \* no reference to a timing of the old session is left: they are garbage
    /\ timings' = <<>>
    /\ UNCHANGED <<cpuFrequency, clock>>
    /\ result' = "ok"
    /\ stdout' = <<>>

(***************************************************************************)
(* StartThroughput.  A panic leaves the assignments made before it.        *)
(***************************************************************************)
\* the charge made to currentAnchor, which line 391 has set to the anchor
\* being started
InterruptedIsCurrentAnchor(startingAnchor) == startingAnchor

\* currentTiming.anchor of lines 414-415: the anchor of the timing that the
\* Start of startingAnchor interrupts
Interrupted(startingAnchor) == timings[currentTiming].anchor

\* lines 399-418, from the reading of the clock on: `byName` is the map after
\* lines 370-390 and startingAnchor the reference to the anchor being started
OpenTiming(byName, startingAnchor, current) ==
    LET startingTiming == Len(timings) + 1
        heap == Append(timings, [start |-> current,
                                 previous |-> currentTiming,
                                 anchor |-> startingAnchor])
        latest == [byName EXCEPT ![startingAnchor].latest = startingTiming]
        first == totalTiming.start = 0
        interrupted == Interrupted(startingAnchor)
    IN  /\ timings' = heap
        /\ totalTiming' = IF first
                          THEN [totalTiming EXCEPT !.start = current,
                                                   !.anchor = TotalAnchorRef]
                          ELSE totalTiming
        /\ totalAnchor' = IF first
                          THEN [totalAnchor EXCEPT !.latest = TotalTimingRef]
                          ELSE totalAnchor
        /\ anchorsByName' =
              IF currentTiming # NilTiming
              THEN [latest EXCEPT
                      ![interrupted].active = FALSE,
                      ![interrupted].tscount =
                          Charge(@, current, timings[currentTiming].start)]
              ELSE latest
        /\ currentTiming' = startingTiming

\* a discovery repeated at every Start: depth and parent assigned again
DiscoverAlways(name, exists) ==
    [(IF exists THEN anchorsByName
      ELSE (name :> NewAnchor(name, TRUE)) @@ anchorsByName) EXCEPT
       ![name].depth = IF currentAnchor # NilAnchor
                       THEN anchorsByName[currentAnchor].depth + 1
                       ELSE 0,
       ![name].parent = currentAnchor]

\* lines 370-386 past the store into anchors: the map with the anchor of
\* `name`, created with its depth and parent when it does not exist
Discover(name, exists) ==
    IF exists THEN anchorsByName
    ELSE [(name :> NewAnchor(name, TRUE)) @@ anchorsByName EXCEPT
            ![name].depth = IF currentAnchor # NilAnchor
                            THEN anchorsByName[currentAnchor].depth + 1
                            ELSE @,
            ![name].parent = currentAnchor]

StartThroughput(anchorName, processedBytes) ==
    IF Disabled
    THEN /\ UNCHANGED <<progVars, clock>>
         /\ result' = "disabled"
         /\ stdout' = <<>>
    ELSE
      \E cal \in (IF cpuFrequency = 0 THEN GetCPUTimerFreq
                  ELSE {[freq |-> cpuFrequency, cpuEnd |-> clock]}) :
        LET name == Truncate(anchorName)
            exists == name \in Known
            created == (name :> NewAnchor(name, TRUE)) @@ anchorsByName
        IN  /\ cpuFrequency' = cal.freq
            /\ stdout' = <<>>
            /\ IF ~exists /\ index + 1 >= maxHandledAnchors
               THEN \* anchors[index] = startingAnchor: index out of range
                    /\ anchorsByName' = created
                    /\ index' = index + 1
                    /\ result' = "panic: index out of range"
                    /\ clock' = cal.cpuEnd
                    /\ UNCHANGED <<anchors, timings, totalTiming, totalAnchor,
                                   currentAnchor, currentTiming>>
               ELSE
                 LET resolved == Discover(name, exists)
                     counted == [resolved EXCEPT
                                   ![name].hits = @ + 1,
                                   ![name].bytes = @ + processedBytes]
                 IN  /\ index' = IF exists THEN index ELSE index + 1
                     /\ anchors' = IF exists THEN anchors
                                   ELSE [anchors EXCEPT ![index + 1] = name]
                     /\ currentAnchor' = name
                     /\ \E current \in ReadCPUTimerAfter(cal.cpuEnd) :
                           /\ clock' = current
                           /\ OpenTiming(counted, name, current)
                     /\ result' = "ok"

Start(anchorName) == StartThroughput(anchorName, 0)

(***************************************************************************)
(* Stop.                                                                   *)
(***************************************************************************)
Stop(anchorName) ==
    IF Disabled
    THEN /\ UNCHANGED <<progVars, clock>>
         /\ result' = "disabled"
         /\ stdout' = <<>>
    ELSE
      \E end \in ReadCPUTimer :
        LET name == Truncate(anchorName)
        IN  /\ clock' = end
            /\ stdout' = <<>>
            /\ UNCHANGED <<cpuFrequency, index, anchors>>
            /\ IF name \notin Known \/ anchorsByName[name].latest = NilTiming
               THEN \* anchor.latest.previous with anchor or anchor.latest nil
                    /\ result' = "panic: nil pointer dereference"
                    /\ UNCHANGED <<anchorsByName, timings, totalTiming,
                                   totalAnchor, currentAnchor, currentTiming>>
               ELSE
                 LET anchor == anchorsByName[name]
                     previousTiming == timings[anchor.latest].previous
                     heap1 == IF previousTiming # NilTiming
                              THEN [timings EXCEPT ![previousTiming].start = end]
                              ELSE timings
                     byName1 ==
                         IF previousTiming # NilTiming
                         THEN [anchorsByName EXCEPT
                                 ![timings[previousTiming].anchor].active = TRUE]
                         ELSE anchorsByName
                     parentLatest == anchorsByName[anchor.parent].latest
                 IN  IF anchor.parent # NilAnchor /\ parentLatest = NilTiming
                     THEN \* anchor.parent.latest.start with latest nil
                          /\ timings' = heap1
                          /\ anchorsByName' = byName1
                          /\ result' = "panic: nil pointer dereference"
                          /\ UNCHANGED <<totalTiming, totalAnchor,
                                         currentAnchor, currentTiming>>
                     ELSE
                       LET heap2 == IF anchor.parent # NilAnchor
                                    THEN [heap1 EXCEPT ![parentLatest].start = end]
                                    ELSE heap1
                           byName2 ==
                               IF anchor.parent # NilAnchor
                               THEN [byName1 EXCEPT ![anchor.parent].active = TRUE]
                               ELSE byName1
                           tscount == Charge(byName2[name].tscount, end,
                                             heap2[anchor.latest].start)
                           total == end - totalTiming.start
                       IN  /\ timings' = heap2
                           /\ currentAnchor' = anchor.parent
                           /\ currentTiming' = previousTiming
                           /\ anchorsByName' =
                                 [byName2 EXCEPT
                                    ![name].tscount = tscount,
                                    ![name].elapsed =
                                        Quotient(tscount, cpuFrequency \div 1000)]
                           /\ totalAnchor' =
                                 [totalAnchor EXCEPT
                                    !.tscount = total,
                                    !.elapsed =
                                        Quotient(total, cpuFrequency \div 1000)]
                           /\ UNCHANGED totalTiming
                           /\ result' = "ok"

(***************************************************************************)
(* Output.  It prints and assigns nothing; the float divisions do not      *)
(* panic, a zero divisor is kept in the quotient.                          *)
(***************************************************************************)
TotalLine ==
    [padding |-> anchorNameMaxLength, name |-> totalAnchor.name,
     elapsed |-> totalAnchor.elapsed, cpuFreq |-> cpuFrequency]

AnchorLine(anchor) ==
    LET percent == Quotient(100 * anchor.tscount, totalAnchor.tscount)
        padding == anchorNameMaxLength + 2 * anchor.depth
    IN  IF anchor.bytes = 0
        THEN [padding |-> padding, name |-> anchor.name,
              elapsed |-> anchor.elapsed, percent |-> percent,
              calls |-> anchor.hits]
        ELSE [padding |-> padding, name |-> anchor.name,
              elapsed |-> anchor.elapsed, percent |-> percent,
              calls |-> anchor.hits,
              megabytes |-> Quotient(anchor.bytes, 1024 * 1024),
              throughput |->
                  Quotient(Quotient(anchor.bytes, 1024 * 1024 * 1024),
                           Quotient(anchor.tscount, cpuFrequency))]

\* the slots the loop reaches: from 1 up to the first nil
Printed ==
    {i \in 1..(maxHandledAnchors - 1) :
        \A j \in 1..i : anchors[j] # NilAnchor}

\* an Output that clears the total anchor once it has printed
OutputClearsTotal ==
    /\ UNCHANGED <<cpuFrequency, index, anchors, anchorsByName, timings,
                   totalTiming, currentAnchor, currentTiming, clock>>
    /\ IF Disabled
       THEN /\ result' = "disabled"
            /\ stdout' = <<>>
            /\ UNCHANGED totalAnchor
       ELSE /\ result' = "ok"
            /\ stdout' = <<TotalLine>> \o
                  [i \in 1..Cardinality(Printed) |->
                      AnchorLine(anchorsByName[anchors[i]])]
            /\ totalAnchor' = NewAnchor(TOTAL_ANCHOR_NAME, FALSE)

Output ==
    /\ UNCHANGED <<progVars, clock>>
    /\ IF Disabled
       THEN /\ result' = "disabled"
            /\ stdout' = <<>>
       ELSE /\ result' = "ok"
            /\ stdout' = <<TotalLine>> \o
                  [i \in 1..Cardinality(Printed) |->
                      AnchorLine(anchorsByName[anchors[i]])]

(***************************************************************************)
(* The caller.  It sets the TIMER variable, resets, prints, begins any     *)
(* region, and ends either its innermost open region or a name none of     *)
(* whose regions is open.  The history variables record what the caller    *)
(* did; a disabled call is no call of the history.                         *)
(***************************************************************************)
Last(s) == s[Len(s)]
Front(s) == SubSeq(s, 1, Len(s) - 1)

\* names of the caller's open regions
OpenNames == {timings[stack[i]].anchor : i \in 1..Len(stack)}

\* every open region was open from the last reading of the clock to this one
Elapse == [n \in TruncatedNames |->
              IF n \in OpenNames THEN openCycles[n] + clock' - clock
              ELSE openCycles[n]]

\* with a region open, the cycles from the last reading to this one were busy
Busy == IF stack # <<>> THEN busyCycles + clock' - clock ELSE busyCycles

Setenv(v) ==
    /\ timerEnv' = v
    /\ call' = "Setenv"
    /\ result' = "ok"
    /\ stdout' = <<>>
    /\ UNCHANGED <<progVars, clock, histVars>>

CallReset ==
    /\ Reset
    /\ call' = "Reset"
    /\ stack' = <<>>
    /\ begun' = [n \in TruncatedNames |-> 0]
    /\ openCycles' = [n \in TruncatedNames |-> 0]
    /\ busyCycles' = 0
    /\ recursed' = FALSE
    /\ misnested' = 0
    /\ strayed' = {}
    /\ shape' = [form |-> "fresh", name |-> NilAnchor]
    /\ firstRead' = -1
    /\ UNCHANGED timerEnv

CallOutput ==
    /\ Output
    /\ call' = "Output"
    /\ UNCHANGED <<timerEnv, histVars>>

Began(anchorName) ==
    LET name == Truncate(anchorName)
        parent == anchorsByName'[name].parent
    IN  IF result' = "disabled" THEN UNCHANGED histVars
        ELSE /\ begun' = [begun EXCEPT ![name] = @ + 1]
             /\ UNCHANGED misnested
             /\ IF result' = "ok"
                THEN /\ stack' = Append(stack, currentTiming')
                     /\ openCycles' = Elapse
                     /\ busyCycles' = Busy
                     /\ recursed' = (recursed \/ name \in OpenNames)
                     /\ strayed' = IF parent # NilAnchor /\ parent \notin OpenNames
                                   THEN strayed \cup {parent} ELSE strayed
                     /\ shape' = IF shape.form = "fresh"
                                    \/ (shape.form = "up" /\ shape.name = name)
                                 THEN [form |-> "up", name |-> name]
                                 ELSE [form |-> "other", name |-> NilAnchor]
                     /\ firstRead' = IF firstRead = -1 THEN clock' ELSE firstRead
                ELSE /\ shape' = [form |-> "other", name |-> NilAnchor]
                     /\ UNCHANGED <<stack, openCycles, busyCycles, recursed,
                                    strayed, firstRead>>

CallStart(anchorName) ==
    /\ Disabled \/ Len(timings) < MaxTimings
    /\ Start(anchorName)
    /\ call' = "Start"
    /\ Began(anchorName)
    /\ UNCHANGED timerEnv

CallStartThroughput(anchorName, processedBytes) ==
    /\ Disabled \/ Len(timings) < MaxTimings
    /\ StartThroughput(anchorName, processedBytes)
    /\ call' = "Start"
    /\ Began(anchorName)
    /\ UNCHANGED timerEnv

\* Stop of the caller's innermost open region
CallStop(anchorName) ==
    /\ stack # <<>>
    /\ Truncate(anchorName) = timings[Last(stack)].anchor
    /\ Stop(anchorName)
    /\ call' = "Stop"
    /\ IF result' = "disabled" THEN UNCHANGED histVars
       ELSE /\ stack' = Front(stack)
            /\ openCycles' = Elapse
            /\ busyCycles' = Busy
            /\ shape' = IF shape.form \in {"up", "down"}
                           /\ shape.name = Truncate(anchorName)
                        THEN [form |-> "down", name |-> shape.name]
                        ELSE [form |-> "other", name |-> NilAnchor]
            /\ UNCHANGED <<begun, recursed, misnested, strayed, firstRead>>
    /\ UNCHANGED timerEnv

\* Stop of a name no region of which is open
CallStopUnmatched(anchorName) ==
    /\ Truncate(anchorName) \notin OpenNames
    /\ Disabled \/ misnested < MaxUnmatched
    /\ Stop(anchorName)
    /\ call' = "Stop"
    /\ IF result' = "disabled" THEN UNCHANGED histVars
       ELSE /\ misnested' = misnested + 1
            /\ openCycles' = Elapse
            /\ busyCycles' = Busy
            /\ shape' = [form |-> "other", name |-> NilAnchor]
            /\ UNCHANGED <<stack, begun, recursed, strayed, firstRead>>
    /\ UNCHANGED timerEnv

\* a caller that ends only its innermost open region
NextNested ==
    \/ CallReset
    \/ CallOutput
    \/ \E n \in Names : CallStart(n)
    \/ \E c \in ThroughputCalls : CallStartThroughput(c[1], c[2])
    \/ \E n \in Names : CallStop(n)

\* any caller
Next ==
    \/ NextNested
    \/ \E n \in Names : CallStopUnmatched(n)

\* the names of a caller whose anchors all fit in the table
NamesEnv == {NameA, LongX, LongY}

\* a caller that also sets TIMER and stays within the table
NextEnv ==
    \/ CallReset
    \/ CallOutput
    \/ \E n \in NamesEnv : CallStart(n)
    \/ \E c \in ThroughputCalls : CallStartThroughput(c[1], c[2])
    \/ \E n \in NamesEnv : CallStop(n)
    \/ \E v \in EnvValues : Setenv(v)

\* every run with TIMER left unset
Spec == Init /\ [][Next]_vars

\* the runs of well-nested calls with TIMER left unset
SpecNested == Init /\ [][NextNested]_vars

\* the runs of well-nested calls that begin with the counter below 0
SpecBelowZero == InitBelowZero /\ [][NextNested]_vars

\* the runs of well-nested calls within the table, TIMER set and unset on
\* the way
SpecEnv == Init /\ [][NextEnv]_vars

(***************************************************************************)
(* Properties.                                                             *)
(***************************************************************************)
\* the timings reached from t by following previous, innermost first
RECURSIVE ChainFrom(_)
ChainFrom(t) ==
    IF t = NilTiming THEN <<>>
    ELSE <<t>> \o ChainFrom(timings[t].previous)

Reverse(s) == [i \in 1..Len(s) |-> s[Len(s) + 1 - i]]

\* C1: after Begin(f) .. Begin(f) End(f) .. End(f), the direct self-recursion
\* of one name and nothing else, anchor f has one hit per Begin, its
\* exclusive cycles are the span from the first Begin to the last End, and
\* they do not exceed the cycles of the total anchor.
C1_RecursionCountsOnce ==
    (shape.form = "down" /\ stack = <<>>) =>
        LET f == anchorsByName[shape.name]
        IN  /\ f.hits = begun[shape.name]
            /\ f.tscount = clock - firstRead
            /\ f.tscount <= totalAnchor.tscount

\* C2: the chain currentTiming -> previous -> ... holds exactly the timings
\* of the caller's open regions, innermost first; it is empty once every
\* Begin is matched.
C2_ChainMirrorsNesting ==
    ChainFrom(currentTiming) = Reverse(stack)

\* C3: in a well-nested sequence, an anchor discovered while no region is
\* open gets no parent and depth 0, and an anchor discovered while the
\* innermost open region belongs to anchor p gets parent p and depth(p) + 1.
C3_Discovery ==
    /\ call' = "Start"
    /\ result' = "ok"
    /\ currentAnchor' \notin Known
    /\ misnested = 0

C3_DiscoveredUnderInnermost ==
    LET discovered == anchorsByName'[currentAnchor']
        p == timings[Last(stack)].anchor
    IN  IF stack = <<>>
        THEN discovered.parent = NilAnchor /\ discovered.depth = 0
        ELSE /\ discovered.parent = p
             /\ discovered.depth = anchorsByName[p].depth + 1

C3_DepthAtDiscovery ==
    [][C3_Discovery => C3_DiscoveredUnderInnermost]_vars

\* C4: Stop of a name that was never begun in the session is reported as
\* UnmatchedEnd and changes nothing of the package-level state.
C4_NeverBegunIsUnmatchedEnd ==
    [][\A n \in Names :
          (Truncate(n) \notin Known /\ CallStopUnmatched(n)) =>
              (result' = "UnmatchedEnd" /\ UNCHANGED progVars)]_vars

\* C5: Stop of a name whose anchor exists, with none of its regions open, is
\* reported as UnmatchedEnd and changes no anchor and neither currentAnchor
\* nor currentTiming.
C5_ClosedIsUnmatchedEnd ==
    [][\A n \in Names :
          (Truncate(n) \in Known /\ CallStopUnmatched(n)) =>
              /\ result' = "UnmatchedEnd"
              /\ UNCHANGED <<anchorsByName, currentAnchor, currentTiming>>]_vars

\* the table has no free slot left
TableFull == index + 1 >= maxHandledAnchors

\* C6: with the table full, Start of a new name fails with
\* AnchorCapacityExceeded and leaves the map, the list, the counter and
\* every anchor as they were.
C6_CapacityExceededKeepsTable ==
    [][(TableFull /\ call' = "Start" /\ Known' # Known) =>
          /\ result' = "AnchorCapacityExceeded"
          /\ UNCHANGED <<anchorsByName, anchors, index>>]_vars

\* the sum of tscount over a set of anchors
RECURSIVE SumCycles(_)
SumCycles(S) ==
    IF S = {} THEN 0
    ELSE LET n == CHOOSE x \in S : TRUE
         IN  anchorsByName[n].tscount + SumCycles(S \ {n})

Children(p) == {n \in Known : anchorsByName[n].parent = p}

WellNestedNoRecursion == misnested = 0 /\ ~recursed

\* C7 as stated: in a well-nested sequence without recursion the exclusive
\* cycles of the anchors whose parent is p do not exceed the cycles during
\* which p was open, also when a child of p is entered from elsewhere.
C7_ChildrenWithinParentAnywhere ==
    WellNestedNoRecursion =>
        \A p \in Known : SumCycles(Children(p)) <= openCycles[p]

\* C7 as amended: in a well-nested sequence without recursion, for every
\* anchor p all of whose children were begun only while p was open, the
\* exclusive cycles of the anchors whose parent is p do not exceed the
\* cycles during which p was open.
C7_ChildrenWithinParent ==
    WellNestedNoRecursion =>
        \A p \in Known \ strayed : SumCycles(Children(p)) <= openCycles[p]

\* a parent whose child has run inside it and has been charged cycles
C7_Witness ==
    /\ WellNestedNoRecursion
    /\ \E p \in Known \ strayed :
          /\ SumCycles(Children(p)) > 0
          /\ SumCycles(Children(p)) = openCycles[p]
          /\ p \notin OpenNames

\* C8: the hits of every anchor are the Start calls made for its name since
\* the last Reset.
C8_HitsCountBegins ==
    \A n \in Known : anchorsByName[n].hits = begun[n]

\* C9: with TIMER = "0", Start, StartThroughput, Stop and Output leave the
\* package-level state as it was.
C9_DisabledChangesNothing ==
    [][(Getenv = "0" /\ call' \in {"Start", "Stop", "Output"}) =>
          UNCHANGED progVars]_vars

\* a disabled Stop of an open region of a populated table
C9_Witness ==
    /\ call = "Stop"
    /\ result = "disabled"
    /\ stack # <<>>
    /\ \E n \in Known : anchorsByName[n].tscount > 0

\* the initial values of the session
InitialSession ==
    <<0, InitAnchors, <<>>, <<>>, NewTiming,
      NewAnchor(TOTAL_ANCHOR_NAME, FALSE), NilAnchor, NilTiming>>

\* C10: Reset returns the session (table, counter, chain, current anchor and
\* timing, total anchor and timing) to its initial values and keeps the
\* calibrated frequency.
C10_ResetRestoresInitial ==
    [][call' = "Reset" =>
          (Session' = InitialSession /\ cpuFrequency' = cpuFrequency)]_vars

\* a Reset after the calibration and some readings of the counter
C10_Witness ==
    /\ call = "Reset"
    /\ Session = InitialSession
    /\ cpuFrequency # 0
    /\ clock = MaxClock

\* the slots of the list that hold an anchor
Listed == {i \in 0..(maxHandledAnchors - 1) : anchors[i] # NilAnchor}

\* C11: the list holds pairwise distinct anchors, they are exactly the
\* anchors of the map, each stored under its own name, there are as many as
\* distinct truncated names begun since the last Reset, and a name longer
\* than anchorNameMaxLength has no anchor but that of its truncation.
C11_OneAnchorPerName ==
    /\ \A i, j \in Listed : anchors[i] = anchors[j] => i = j
    /\ {anchors[i] : i \in Listed} = Known
    /\ \A n \in Known : anchorsByName[n].name = n
    /\ Cardinality(Listed) = Cardinality({n \in TruncatedNames : begun[n] > 0})
    /\ \A n \in Names : Truncate(n) # n => n \notin Known

\* C12: no Start and no Stop changes the depth or the parent of an anchor
\* that exists already.
C12_DepthAndParentStable ==
    [][\A n \in Known \cap Known' :
          /\ anchorsByName'[n].depth = anchorsByName[n].depth
          /\ anchorsByName'[n].parent = anchorsByName[n].parent]_vars

\* an anchor discovered inside another and begun again with no region open
C12_Witness ==
    /\ call = "Start"
    /\ result = "ok"
    /\ Len(stack) = 1
    /\ LET n == timings[stack[1]].anchor
       IN  /\ anchorsByName[n].depth = 1
           /\ anchorsByName[n].parent \in Known
           /\ anchorsByName[n].hits = 2

\* C13: Output changes nothing of the package-level state, and an Output
\* that follows an Output prints the same lines.
C13_OutputReadsOnly ==
    [][call' = "Output" =>
          /\ UNCHANGED progVars
          /\ call = "Output" => (result' = result /\ stdout' = stdout)]_vars

\* an Output of a total and two anchors with cycles charged
C13_Witness ==
    /\ call = "Output"
    /\ result = "ok"
    /\ Len(stdout) = 3
    /\ totalAnchor.tscount > 0
    /\ \A n \in Known : anchorsByName[n].tscount > 0

\* C14: no line Output prints holds a percentage computed with a divisor of
\* zero.
C14_NoZeroDivisor ==
    \A i \in 2..Len(stdout) : stdout[i].percent.den # 0

\* the bytes of the anchor of a name, 0 when it has none
BytesOf(n) == IF n \in Known THEN anchorsByName[n].bytes ELSE 0

\* a call for `name` with `processedBytes` adds them to its anchor alone
C15_BytesAdded(name, processedBytes) ==
    \A n \in TruncatedNames :
        BytesOf(n)' = BytesOf(n) + (IF n = name THEN processedBytes ELSE 0)

\* C15: the bytes of an anchor are the sum of the bytes given for its name
\* since the last Reset: they are 0 without an anchor, every Start for the
\* name adds 0 and every StartThroughput its argument, and no Stop and no
\* call for another name changes them.
C15_BytesSumArguments ==
    [][/\ \A c \in ThroughputCalls :
             (CallStartThroughput(c[1], c[2]) /\ result' # "disabled") =>
                 C15_BytesAdded(Truncate(c[1]), c[2])
       /\ \A n \in Names :
             (CallStart(n) /\ result' # "disabled") =>
                 C15_BytesAdded(Truncate(n), 0)
       /\ call' = "Stop" => C15_BytesAdded(NilAnchor, 0)]_vars

Owner(t) == IF t = NilTiming THEN NilAnchor ELSE timings[t].anchor

\* C17: in a well-nested sequence currentAnchor is the anchor of
\* currentTiming, and nil exactly when currentTiming is nil.
C17_CurrentAnchorOwnsCurrentTiming ==
    misnested = 0 => currentAnchor = Owner(currentTiming)

\* the caller's innermost open region of anchor n
InnermostOpen(n) ==
    stack[CHOOSE i \in 1..Len(stack) :
            /\ timings[stack[i]].anchor = n
            /\ \A j \in (i + 1)..Len(stack) : timings[stack[j]].anchor # n]

\* C18: in a well-nested sequence, recursion included, the latest timing of
\* every anchor with an open region is the timing of its innermost open
\* region.
C18_LatestIsInnermostOpen ==
    misnested = 0 =>
        \A n \in OpenNames : anchorsByName[n].latest = InnermostOpen(n)

\* C19: in a well-nested sequence an anchor is active exactly when it is the
\* anchor of currentTiming, so at most one anchor is active.
C19_ActiveIsCurrent ==
    misnested = 0 =>
        \A n \in Known :
            anchorsByName[n].active <=>
                (currentTiming # NilTiming /\ Owner(currentTiming) = n)

\* C20: totalTiming.start is the reading of the first Start since the
\* session began or was Reset, whatever that reading is, no later Start or
\* Stop changes it, and after every Stop the cycles of the total anchor are
\* the reading of that Stop less the reading of the first Start.
C20_TotalSpanFromFirstStart ==
    /\ firstRead # -1 => totalTiming.start = firstRead
    /\ (call = "Stop" /\ result = "ok") =>
           totalAnchor.tscount = clock - firstRead

\* the cycles of the anchor of a name, 0 when it has none
CyclesOf(n) == IF n \in Known THEN anchorsByName[n].tscount ELSE 0

\* the cycles of anchor `charged` grow by `cycles`, those of no other anchor
\* change
C21_OnlyCharged(charged, cycles) ==
    \A n \in TruncatedNames :
        CyclesOf(n)' = CyclesOf(n) + (IF n = charged THEN cycles ELSE 0)

\* C21: a Start adds the cycles from the start of the timing that was current
\* to its own reading to the anchor of that timing, and changes the cycles
\* of no other anchor, of none at all when no timing was current; a Stop
\* adds the cycles from the start of the latest timing of the named anchor
\* to its own reading to that anchor, changes the cycles of no other anchor
\* of the table, and changes no anchor's hits, depth, parent or bytes.
C21_FrameOfTheCharge ==
    [][/\ call' = "Start" =>
             IF result' = "ok" /\ currentTiming # NilTiming
             THEN C21_OnlyCharged(Owner(currentTiming),
                                  clock' - timings[currentTiming].start)
             ELSE C21_OnlyCharged(NilAnchor, 0)
       /\ \A n \in Names :
             (CallStop(n) \/ CallStopUnmatched(n)) =>
                 IF result' = "ok"
                 THEN C21_OnlyCharged(
                          Truncate(n),
                          clock' - timings[anchorsByName[Truncate(n)].latest].start)
                 ELSE C21_OnlyCharged(NilAnchor, 0)
       /\ call' = "Stop" =>
             /\ Known' = Known
             /\ \A n \in Known :
                   /\ anchorsByName'[n].hits = anchorsByName[n].hits
                   /\ anchorsByName'[n].depth = anchorsByName[n].depth
                   /\ anchorsByName'[n].parent = anchorsByName[n].parent
                   /\ anchorsByName'[n].bytes = anchorsByName[n].bytes]_vars

\* a Stop that has charged the anchor of a region nested in an open region,
\* whose own anchor was charged by no call
C21_Witness ==
    /\ call = "Stop"
    /\ result = "ok"
    /\ Len(stack) = 1
    /\ CyclesOf(Owner(stack[1])) = 0
    /\ \E n \in Known :
          /\ anchorsByName[n].parent = Owner(stack[1])
          /\ anchorsByName[n].tscount > 0

=============================================================================

